---- MODULE Spec2Model ----
(***************************************************************************)
(* EnhanceVision: the /enhance endpoint (src/app.py), its enhance_video    *)
(* job and the per-frame process_frame transform.                          *)
(*                                                                         *)
(* Real-valued request parameters are carried in tenths (18 is 1.8).       *)
(* A frame is one row of FrameWidth pixels, a pixel is <<b, g, r>>.        *)
(***************************************************************************)
EXTENDS Integers, Sequences, FiniteSets, TLC

\* ------------------------------------------------------------------ bounds
FrameWidth == 2
NumFrames == 2
NumJobs == 2

\* ------------------------------------------------------- integer helpers
Abs(n) == IF n < 0 THEN -n ELSE n

Min(a, b) == IF a < b THEN a ELSE b

Max(a, b) == IF a > b THEN a ELSE b

\* cvRound / lrint: n/d rounded to the nearest integer, ties to even (d > 0).
RoundHalfEven(n, d) ==
    LET q == n \div d
        r == n - q * d
    IN  IF 2 * r < d THEN q
        ELSE IF 2 * r > d THEN q + 1
        ELSE IF q % 2 = 0 THEN q ELSE q + 1

\* cv::saturate_cast<uchar> of an integer.
SaturateUchar(v) == Min(Max(v, 0), 255)

\* int(x) of Python for x = t/10: truncation toward zero.
IntTrunc(t) == IF t < 0 THEN -((-t) \div 10) ELSE t \div 10

\* ------------------------------------------------------------- float32
\* A float32 value sign * m * 2^e, m = 0 or 2^23 <= m < 2^24.
F32Zero == [sign |-> 1, m |-> 0, e |-> 0]

RECURSIVE F32Norm(_, _, _)
F32Norm(sign, m, e) ==
    IF m = 0 THEN F32Zero
    ELSE IF m < 8388608 THEN F32Norm(sign, 2 * m, e - 1)
    ELSE [sign |-> sign, m |-> m, e |-> e]

\* uint8 -> float32 (astype(np.float32)): exact.
F32FromInt(n) == F32Norm(1, n, 0)

RECURSIVE ScaleExp(_, _)
ScaleExp(a, k) == IF a * (2 ^ k) < 10 * 8388608 THEN ScaleExp(a, k + 1) ELSE k

\* The Python float t/10 as numpy casts it to float32 for an in-place
\* multiply of a float32 array: t/10 rounded to 24 bits.
F32FromTenths(t) ==
    IF t = 0 THEN F32Zero
    ELSE LET a == Abs(t)
             k == ScaleExp(a, 0)
             m == RoundHalfEven(a * (2 ^ k), 10)
         IN  IF m = 16777216
             THEN [sign |-> IF t < 0 THEN -1 ELSE 1, m |-> 8388608, e |-> 1 - k]
             ELSE [sign |-> IF t < 0 THEN -1 ELSE 1, m |-> m, e |-> -k]

\* IEEE-754 single multiplication, round to nearest even.  The 48-bit
\* product of the mantissas is kept in two 24-bit limbs.
F32Mul(x, y) ==
    IF x.m = 0 \/ y.m = 0 THEN F32Zero
    ELSE LET xh == x.m \div 4096
             xl == x.m % 4096
             yh == y.m \div 4096
             yl == y.m % 4096
             mid == xh * yl + xl * yh
             loRaw == xl * yl + (mid % 4096) * 4096
             lo == loRaw % 16777216
             hi == xh * yh + (mid \div 4096) + (loRaw \div 16777216)
             sg == x.sign * y.sign
         IN  IF hi >= 8388608
             THEN LET up == lo > 8388608 \/ (lo = 8388608 /\ hi % 2 = 1)
                      m == IF up THEN hi + 1 ELSE hi
                  IN  IF m = 16777216
                      THEN [sign |-> sg, m |-> 8388608, e |-> x.e + y.e + 25]
                      ELSE [sign |-> sg, m |-> m, e |-> x.e + y.e + 24]
             ELSE LET m0 == 2 * hi + (lo \div 8388608)
                      rem == lo % 8388608
                      up == rem > 4194304 \/ (rem = 4194304 /\ m0 % 2 = 1)
                      m == IF up THEN m0 + 1 ELSE m0
                  IN  IF m = 16777216
                      THEN [sign |-> sg, m |-> 8388608, e |-> x.e + y.e + 24]
                      ELSE [sign |-> sg, m |-> m, e |-> x.e + y.e + 23]

\* np.clip(x, 0, 255).astype(np.uint8) of one float32 value: clamp, then
\* truncate toward zero.
ClipToUint8(x) ==
    IF x.m = 0 \/ x.sign < 0 THEN 0
    ELSE IF x.e >= 0 THEN 255
    ELSE IF x.e <= -24 THEN 0
    ELSE Min(x.m \div (2 ^ (-x.e)), 255)

\* ---------------------------------------------------- colour conversion
\* cv2.cvtColor(frame, cv2.COLOR_BGR2HSV) on 8-bit samples (OpenCV's
\* fixed-point RGB2HSV_b, hue range 180): one pixel <<b, g, r>> to <<h, s, v>>.
SDivTable(v) == IF v = 0 THEN 0 ELSE RoundHalfEven(255 * 4096, v)

HDivTable180(d) == IF d = 0 THEN 0 ELSE RoundHalfEven(180 * 4096, 6 * d)

BGR2HSV(px) ==
    LET b == px[1]
        g == px[2]
        r == px[3]
        v == Max(b, Max(g, r))
        vmin == Min(b, Min(g, r))
        diff == v - vmin
        s == (diff * SDivTable(v) + 2048) \div 4096
        h0 == IF v = r THEN g - b
              ELSE IF v = g THEN b - r + 2 * diff
              ELSE r - g + 4 * diff
        h1 == (h0 * HDivTable180(diff) + 2048) \div 4096
        h == IF h1 < 0 THEN h1 + 180 ELSE h1
    IN  <<SaturateUchar(h), s, v>>

\* cv2.cvtColor(hsv, cv2.COLOR_HSV2BGR) on 8-bit samples (HSV2RGB_b):
\* h/30 gives the sector and the fraction, the four candidate values are
\* v, v(1-s), v(1-s*f), v(1-s*(1-f)), each rounded to the nearest 8-bit
\* sample.  The arithmetic is exact here; OpenCV's float32 evaluation can
\* differ only where the exact value is within rounding error of a half.
HSV2BGR(px) ==
    LET h == px[1]
        s == px[2]
        v == px[3]
        sector == (h \div 30) % 6
        hf == h % 30
        tab == << v,
                  RoundHalfEven(v * (255 - s), 255),
                  RoundHalfEven(v * (7650 - s * hf), 7650),
                  RoundHalfEven(v * (7650 - s * (30 - hf)), 7650) >>
        sector_data == << <<1, 3, 0>>, <<1, 0, 2>>, <<3, 0, 1>>,
                          <<0, 2, 1>>, <<0, 1, 3>>, <<2, 1, 0>> >>
        pick == sector_data[sector + 1]
    IN  IF s = 0 THEN <<v, v, v>>
        ELSE << SaturateUchar(tab[pick[1] + 1]),
                SaturateUchar(tab[pick[2] + 1]),
                SaturateUchar(tab[pick[3] + 1]) >>

\* ---------------------------------------------------- process_frame steps
\* line 91: BGR -> HSV, widened to float32.
ToHSVFloat(frame) ==
    [x \in 1..Len(frame) |->
        LET q == BGR2HSV(frame[x])
        IN  <<F32FromInt(q[1]), F32FromInt(q[2]), F32FromInt(q[3])>>]

\* hsv[..., 1] *= factor: a float32 array times a Python float, in float32.
ScaleChannel1(hsv, factor) ==
    [x \in 1..Len(hsv) |->
        <<hsv[x][1], F32Mul(hsv[x][2], F32FromTenths(factor)), hsv[x][3]>>]

\* line 94: hsv[..., 1] *= saturation
AdjustSaturation(hsv, saturation) == ScaleChannel1(hsv, saturation)

\* A slip of line 97: the boost scales the value channel, hsv[..., 2].
AdjustColorBoost_OnValue(hsv, color_boost) ==
    [x \in 1..Len(hsv) |->
        <<hsv[x][1], hsv[x][2], F32Mul(hsv[x][3], F32FromTenths(color_boost))>>]

\* line 97: hsv[..., 1] *= color_boost
AdjustColorBoost(hsv, color_boost) == ScaleChannel1(hsv, color_boost)

\* line 100: np.clip(hsv, 0, 255).astype(np.uint8), every channel.
ClipHSV(hsv) ==
    [x \in 1..Len(hsv) |->
        <<ClipToUint8(hsv[x][1]), ClipToUint8(hsv[x][2]), ClipToUint8(hsv[x][3])>>]

\* line 103: HSV -> BGR.
ToBGR(hsv8) == [x \in 1..Len(hsv8) |-> HSV2BGR(hsv8[x])]

\* cv2.convertScaleAbs on one sample: saturate_cast<uchar>(|alpha*x + beta|).
\* contrast is a multiple of 0.5 in every input drawn here, so the float32
\* evaluation is exact.
ScaleAbsSample(x, contrast, beta) ==
    SaturateUchar(RoundHalfEven(Abs(x * contrast + 10 * beta), 10))

\* line 107: cv2.convertScaleAbs(frame, alpha=contrast, beta=int(brightness)).
ConvertScaleAbs(frame, contrast, brightness) ==
    [x \in 1..Len(frame) |->
        [c \in 1..3 |-> ScaleAbsSample(frame[x][c], contrast, IntTrunc(brightness))]]

\* cv2.borderInterpolate with BORDER_REFLECT_101 (filter2D's default).
Reflect101(i, len) ==
    IF len = 1 THEN 1
    ELSE IF i < 1 THEN 2 - i
    ELSE IF i > len THEN 2 * len - i
    ELSE i

\* lines 112-120: cv2.filter2D(frame, -1, kernel * sharpness) with the
\* kernel [[0,-1,0],[-1,5,-1],[0,-1,0]] on a frame of one row: the rows
\* above and below reflect onto the row itself.
Filter2D(frame, sharpness) ==
    [x \in 1..Len(frame) |->
        [c \in 1..3 |->
            LET p == frame[x][c]
                l == frame[Reflect101(x - 1, Len(frame))][c]
                r == frame[Reflect101(x + 1, Len(frame))][c]
            IN  SaturateUchar(RoundHalfEven(sharpness * (5 * p - p - p - l - r), 10))]]

\* line 110: if sharpness != 1.0
Sharpen(frame, sharpness) ==
    IF sharpness # 10 THEN Filter2D(frame, sharpness) ELSE frame

\* lines 75-122: process_frame as a whole.
process_frame(frame, p) ==
    Sharpen(
        ConvertScaleAbs(
            ToBGR(ClipHSV(AdjustColorBoost(AdjustSaturation(ToHSVFloat(frame), p.saturation),
                                           p.color_boost))),
            p.contrast, p.brightness),
        p.sharpness)

\* VideoEnhancementRequest's defaults (lines 26-30).
DefaultParams ==
    [sharpness |-> 10, contrast |-> 10, brightness |-> 0,
     saturation |-> 10, color_boost |-> 10]

\* ------------------------------------------------------------ the inputs
Palette ==
    << <<128, 128, 128>>, <<0, 1, 255>>, <<249, 249, 255>>,
       <<100, 150, 200>>, <<100, 100, 100>> >>

\* Frames of FrameWidth pixels drawn from the palette.
Frames == [1..FrameWidth -> {Palette[k] : k \in 1..Len(Palette)}]

SharpnessValues == {10, 20}

ContrastValues == {5, 10, 15}

BrightnessValues == {-2000, -9, 0, 9, 10, 100}

FactorValues == {10, 18, 20, 25}

\* Parameter sets of the transform checks: contrast and brightness vary
\* with the colour factors at identity, or the colour factors vary with
\* contrast and brightness at identity.
TransformParams ==
    { [sharpness |-> sh, contrast |-> c, brightness |-> b,
       saturation |-> 10, color_boost |-> 10] :
        sh \in SharpnessValues, c \in ContrastValues, b \in BrightnessValues }
    \cup
    { [sharpness |-> sh, contrast |-> 10, brightness |-> 0,
       saturation |-> sa, color_boost |-> cb] :
        sh \in SharpnessValues, sa \in FactorValues, cb \in FactorValues }

\* Paths are sequences of components, the last one the extension.
VideoA == <<"a", ".mp4">>

VideoB == <<"b", ".mp4">>

VideoMissing == <<"missing", ".mp4">>

Videos == {VideoA, VideoB, VideoMissing}

\* The source files on disk: a.mp4 has an audio track, b.mp4 has none,
\* missing.mp4 does not exist.
SourceExists(path) == path \in {VideoA, VideoB}

HasAudio(path) == path = VideoA

SourceFrame(path, i) ==
    [x \in 1..FrameWidth |->
        Palette[((i + x + (IF path = VideoA THEN 0 ELSE 2)) % Len(Palette)) + 1]]

SourceFrames(path) == [i \in 1..NumFrames |-> SourceFrame(path, i)]

EnhancingParams ==
    [sharpness |-> 20, contrast |-> 15, brightness |-> 100,
     saturation |-> 18, color_boost |-> 25]

JobParams == {DefaultParams, EnhancingParams}

\* The request bodies drawn: video_path and the five parameters.
Requests ==
    { [video_path |-> VideoA, params |-> DefaultParams],
      [video_path |-> VideoA, params |-> EnhancingParams],
      [video_path |-> VideoB, params |-> EnhancingParams],
      [video_path |-> VideoMissing, params |-> DefaultParams] }

\* What fl_image's clip yields for frame i of a source under the job's
\* parameters: process_frame of the source frame (line 125), tabulated over
\* the requests the jobs can make.
EnhancedFrames ==
    [v \in Videos |-> [p \in JobParams |-> [i \in 1..NumFrames |->
        process_frame(SourceFrame(v, i), p)]]]

Jobs == 1..NumJobs

Absent == [exists |-> FALSE]

NoResponse == [sent |-> FALSE]

NoError == [raised |-> FALSE]

NoIndex == 0

\* os.path.splitext (line 161): the extension is the last component.
splitext(path) ==
    IF Len(path) > 1
    THEN <<SubSeq(path, 1, Len(path) - 1), <<path[Len(path)]>> >>
    ELSE <<path, <<>> >>

\* line 162: f"{base_name}_enhanced{ext}"
OutputPath(video_path) ==
    splitext(video_path)[1] \o <<"_enhanced">> \o splitext(video_path)[2]

\* line 133: temp_audiofile="temp_audio.m4a", the same literal for every job.
TempAudioFile(j) == <<"temp_audio", ".m4a">>

FilePaths == {OutputPath(v) : v \in Videos} \cup {TempAudioFile(j) : j \in Jobs}

\* ------------------------------------------------------------- the state
VARIABLES
    pc,           \* per job: the statement the request's thread is at
    request,      \* per job: the VideoEnhancementRequest and the output path
    fs,           \* the files the jobs write: output files and the temp audio
    encoder,      \* per job: the FFMPEG_VideoWriter ("none", "open", "broken", "closed")
    pos,          \* per job: index of the next frame iter_frames yields
    transformed,  \* per job: the frame indices process_frame was called on, in order
    ingested,     \* per job: the frames handed to write_frame, in order
    failedFrame,  \* per job: the frame index process_frame raised on (NoIndex: none)
    wroteTemp,    \* per job: this job has written the temp audio file
    response,     \* per job: the VideoEnhancementResponse sent
    error,        \* per job: the exception that left the endpoint
    t_pc,         \* process_frame taken alone: the line it is at
    t_in,         \* ... its argument
    t_params,     \* ... the parameters of the enclosing enhance_video
    t_hsv,        \* ... the local hsv
    t_bgr,        \* ... frame as line 103 left it
    t_frame       \* ... the local frame

jobVars ==
    <<pc, request, fs, encoder, pos, transformed, ingested, failedFrame,
      wroteTemp, response, error>>

tVars == <<t_pc, t_in, t_params, t_hsv, t_bgr, t_frame>>

vars == <<jobVars, tVars>>

NoRequest == [video_path |-> <<>>, params |-> DefaultParams, output_path |-> <<>>]

JobInit ==
    /\ pc = [j \in Jobs |-> "idle"]
    /\ request = [j \in Jobs |-> NoRequest]
    /\ fs = [f \in FilePaths |-> Absent]
    /\ encoder = [j \in Jobs |-> "none"]
    /\ pos = [j \in Jobs |-> 1]
    /\ transformed = [j \in Jobs |-> <<>>]
    /\ ingested = [j \in Jobs |-> <<>>]
    /\ failedFrame = [j \in Jobs |-> NoIndex]
    /\ wroteTemp = [j \in Jobs |-> FALSE]
    /\ response = [j \in Jobs |-> NoResponse]
    /\ error = [j \in Jobs |-> NoError]

TIdle ==
    /\ t_pc = "off"
    /\ t_in = <<>>
    /\ t_params = DefaultParams
    /\ t_hsv = <<>>
    /\ t_bgr = <<>>
    /\ t_frame = <<>>

\* ------------------------------------------------------ the job's steps
\* The exception as it leaves enhance_video: nothing in lines 124-135 or
\* 165-173 catches or wraps it, so it carries the stage that raised and no
\* frame index.
ExceptionInfo(stage, k) == [raised |-> TRUE, stage |-> stage, frame_index |-> NoIndex]

\* line 175
ResponseOnReturn(output_path) == [sent |-> TRUE, output_video_path |-> output_path]

\* A slip of the endpoint: the response is built although the job raised.
ResponseOnRaise_Anyway(output_path) == ResponseOnReturn(output_path)

\* What the endpoint answers when enhance_video raises (lines 165-175): the
\* exception passes the return statement, no response body is built.
ResponseOnRaise(output_path) == NoResponse

\* A slip of line 73: the open never fails.
CanOpen_Always(path) == TRUE

\* VideoFileClip(video_path), line 73: raises when the file cannot be opened.
CanOpen(path) == SourceExists(path)

\* write_videofile's make_audio: the clip has an audio track.
MakeAudio(j) == HasAudio(request[j].video_path)

\* A slip of the frame loop: it stops one frame early.
FramesExhausted_OneEarly(j) == pos[j] >= NumFrames

\* iter_frames is exhausted.
FramesExhausted(j) == pos[j] > NumFrames

\* A slip of the endpoint: the exception is caught and dropped, the call
\* goes on to its return statement.
Raise_Swallowed(j, stage, k) ==
    /\ pc' = [pc EXCEPT ![j] = "done"]
    /\ response' = [response EXCEPT ![j] = ResponseOnReturn(request[j].output_path)]
    /\ UNCHANGED error

\* An exception leaves enhance_video and the endpoint at once: no except,
\* no finally, so files written so far stay as they are.
Raise(j, stage, k) ==
    /\ pc' = [pc EXCEPT ![j] = "failed"]
    /\ error' = [error EXCEPT ![j] = ExceptionInfo(stage, k)]
    /\ response' = [response EXCEPT ![j] = ResponseOnRaise(request[j].output_path)]

\* enhance_video returns and the endpoint builds its response (line 175).
Return(j) ==
    /\ pc' = [pc EXCEPT ![j] = "done"]
    /\ response' = [response EXCEPT ![j] = ResponseOnReturn(request[j].output_path)]
    /\ UNCHANGED error

\* POST /enhance arrives (lines 139, 160-162).  The endpoint is a plain def,
\* so each request runs on its own worker thread.
Request(j) ==
    /\ pc[j] = "idle"
    /\ \E r \in Requests :
        request' = [request EXCEPT ![j] =
            [video_path |-> r.video_path, params |-> r.params,
             output_path |-> OutputPath(r.video_path)]]
    /\ pc' = [pc EXCEPT ![j] = "open"]
    /\ UNCHANGED <<tVars, fs, encoder, pos, transformed, ingested, failedFrame,
                   wroteTemp, response, error>>

\* line 73: clip = VideoFileClip(video_path)
OpenSource(j) ==
    /\ pc[j] = "open"
    /\ IF CanOpen(request[j].video_path)
       THEN /\ pc' = [pc EXCEPT ![j] = "fl_image"]
            /\ UNCHANGED <<response, error>>
       ELSE Raise(j, "open", NoIndex)
    /\ UNCHANGED <<tVars, request, fs, encoder, pos, transformed, ingested,
                   failedFrame, wroteTemp>>

\* line 125: clip.fl_image(process_frame).  Building the new clip evaluates
\* its frame at t = 0 to learn the size (moviepy's set_make_frame), which
\* calls process_frame on the first frame; the result is not kept.
FlImage(j) ==
    /\ pc[j] = "fl_image"
    /\ transformed' = [transformed EXCEPT ![j] = Append(@, 1)]
    /\ \/ /\ pc' = [pc EXCEPT ![j] = "write_audio"]
          /\ UNCHANGED <<failedFrame, response, error>>
       \/ /\ failedFrame' = [failedFrame EXCEPT ![j] = 1]
          /\ Raise(j, "transform", 1)
    /\ UNCHANGED <<tVars, request, fs, encoder, pos, ingested, wroteTemp>>

\* line 128, first part of write_videofile: the clip's audio is written to
\* temp_audiofile.  The write may fail, leaving what was written.
WriteAudio(j) ==
    /\ pc[j] = "write_audio"
    /\ IF MakeAudio(j)
       THEN /\ wroteTemp' = [wroteTemp EXCEPT ![j] = TRUE]
            /\ \/ /\ fs' = [fs EXCEPT ![TempAudioFile(j)] =
                              [exists |-> TRUE, writer |-> j, complete |-> TRUE]]
                  /\ pc' = [pc EXCEPT ![j] = "open_encoder"]
                  /\ UNCHANGED <<response, error>>
               \/ /\ fs' = [fs EXCEPT ![TempAudioFile(j)] =
                              [exists |-> TRUE, writer |-> j, complete |-> FALSE]]
                  /\ Raise(j, "encode", NoIndex)
       ELSE /\ pc' = [pc EXCEPT ![j] = "open_encoder"]
            /\ UNCHANGED <<fs, wroteTemp, response, error>>
    /\ UNCHANGED <<tVars, request, encoder, pos, transformed, ingested, failedFrame>>

\* write_videofile, second part: the video writer starts the encoder on the
\* output path with the temp audio file as its second input.  With that
\* file gone the encoder exits and the first write_frame raises.
OpenEncoder(j) ==
    /\ pc[j] = "open_encoder"
    /\ IF MakeAudio(j) /\ ~fs[TempAudioFile(j)].exists
       THEN /\ encoder' = [encoder EXCEPT ![j] = "broken"]
            /\ UNCHANGED fs
       ELSE /\ encoder' = [encoder EXCEPT ![j] = "open"]
            /\ fs' = [fs EXCEPT ![request[j].output_path] =
                        [exists |-> TRUE, writer |-> j, complete |-> FALSE]]
    /\ pc' = [pc EXCEPT ![j] = "iter_frames"]
    /\ UNCHANGED <<tVars, request, pos, transformed, ingested, failedFrame,
                   wroteTemp, response, error>>

\* write_videofile's frame loop: the next frame is pulled through
\* process_frame and handed to write_frame; either may raise.
IterFrame(j) ==
    /\ pc[j] = "iter_frames"
    /\ ~FramesExhausted(j)
    /\ transformed' = [transformed EXCEPT ![j] = Append(@, pos[j])]
    /\ \/ /\ failedFrame' = [failedFrame EXCEPT ![j] = pos[j]]
          /\ Raise(j, "transform", pos[j])
          /\ UNCHANGED <<pos, ingested>>
       \/ /\ Raise(j, "encode", NoIndex)
          /\ UNCHANGED <<pos, ingested, failedFrame>>
       \/ /\ encoder[j] = "open"
          /\ ingested' = [ingested EXCEPT ![j] =
                Append(@, EnhancedFrames[request[j].video_path][request[j].params][pos[j]])]
          /\ pos' = [pos EXCEPT ![j] = @ + 1]
          /\ UNCHANGED <<pc, failedFrame, response, error>>
    /\ UNCHANGED <<tVars, request, fs, encoder, wroteTemp>>

\* The loop ends and the writer is closed: the output file is complete
\* unless another job has reopened the same path meanwhile.
CloseWriter(j) ==
    /\ pc[j] = "iter_frames"
    /\ FramesExhausted(j)
    /\ encoder' = [encoder EXCEPT ![j] = "closed"]
    /\ fs' = [fs EXCEPT ![request[j].output_path] =
                IF @.exists /\ @.writer = j THEN [@ EXCEPT !.complete = TRUE] ELSE @]
    /\ pc' = [pc EXCEPT ![j] = "remove_temp"]
    /\ UNCHANGED <<tVars, request, pos, transformed, ingested, failedFrame,
                   wroteTemp, response, error>>

\* write_videofile, end: remove_temp=True (line 134) with make_audio tests
\* os.path.exists(audiofile) ...
RemoveTempCheck(j) ==
    /\ pc[j] = "remove_temp"
    /\ IF MakeAudio(j) /\ fs[TempAudioFile(j)].exists
       THEN /\ pc' = [pc EXCEPT ![j] = "os_remove"]
            /\ UNCHANGED <<response, error>>
       ELSE Return(j)
    /\ UNCHANGED <<tVars, request, fs, encoder, pos, transformed, ingested,
                   failedFrame, wroteTemp>>

\* ... and then calls os.remove(audiofile), which raises if the file has
\* gone since the test.
RemoveTemp(j) ==
    /\ pc[j] = "os_remove"
    /\ IF fs[TempAudioFile(j)].exists
       THEN /\ fs' = [fs EXCEPT ![TempAudioFile(j)] = Absent]
            /\ Return(j)
       ELSE /\ Raise(j, "cleanup", NoIndex)
            /\ UNCHANGED fs
    /\ UNCHANGED <<tVars, request, encoder, pos, transformed, ingested,
                   failedFrame, wroteTemp>>

Init == JobInit /\ TIdle

Next ==
    \E j \in Jobs :
        \/ Request(j)
        \/ OpenSource(j)
        \/ FlImage(j)
        \/ WriteAudio(j)
        \/ OpenEncoder(j)
        \/ IterFrame(j)
        \/ CloseWriter(j)
        \/ RemoveTempCheck(j)
        \/ RemoveTemp(j)

Spec == Init /\ [][Next]_vars

\* ------------------------------------------- process_frame, line by line
TInit ==
    /\ t_pc = "cvt_hsv"
    /\ t_in \in Frames
    /\ t_params \in TransformParams
    /\ t_hsv = <<>>
    /\ t_bgr = <<>>
    /\ t_frame = t_in

\* line 91
TCvtHSV ==
    /\ t_pc = "cvt_hsv"
    /\ t_hsv' = ToHSVFloat(t_frame)
    /\ t_pc' = "saturation"
    /\ UNCHANGED <<jobVars, t_in, t_params, t_bgr, t_frame>>

\* line 94
TSaturation ==
    /\ t_pc = "saturation"
    /\ t_hsv' = AdjustSaturation(t_hsv, t_params.saturation)
    /\ t_pc' = "color_boost"
    /\ UNCHANGED <<jobVars, t_in, t_params, t_bgr, t_frame>>

\* line 97
TColorBoost ==
    /\ t_pc = "color_boost"
    /\ t_hsv' = AdjustColorBoost(t_hsv, t_params.color_boost)
    /\ t_pc' = "clip"
    /\ UNCHANGED <<jobVars, t_in, t_params, t_bgr, t_frame>>

\* line 100
TClip ==
    /\ t_pc = "clip"
    /\ t_hsv' = ClipHSV(t_hsv)
    /\ t_pc' = "cvt_bgr"
    /\ UNCHANGED <<jobVars, t_in, t_params, t_bgr, t_frame>>

\* line 103
TCvtBGR ==
    /\ t_pc = "cvt_bgr"
    /\ t_frame' = ToBGR(t_hsv)
    /\ t_bgr' = ToBGR(t_hsv)
    /\ t_pc' = "scale_abs"
    /\ UNCHANGED <<jobVars, t_in, t_params, t_hsv>>

\* line 107
TScaleAbs ==
    /\ t_pc = "scale_abs"
    /\ t_frame' = ConvertScaleAbs(t_frame, t_params.contrast, t_params.brightness)
    /\ t_pc' = "sharpen"
    /\ UNCHANGED <<jobVars, t_in, t_params, t_hsv, t_bgr>>

\* lines 110-122
TSharpen ==
    /\ t_pc = "sharpen"
    /\ t_frame' = Sharpen(t_frame, t_params.sharpness)
    /\ t_pc' = "done"
    /\ UNCHANGED <<jobVars, t_in, t_params, t_hsv, t_bgr>>

InitTransform == JobInit /\ TInit

NextTransform ==
    \/ TCvtHSV
    \/ TSaturation
    \/ TColorBoost
    \/ TClip
    \/ TCvtBGR
    \/ TScaleAbs
    \/ TSharpen

SpecTransform == InitTransform /\ [][NextTransform]_vars

\* The line-by-line run returns what process_frame computes.
StepwiseAgrees == t_pc = "done" => t_frame = process_frame(t_in, t_params)

\* ================================================================ claims

\* A job holds the temp audio file from its write until write_videofile
\* has removed it.
HoldsTemp(j) ==
    wroteTemp[j] /\ pc[j] \in {"open_encoder", "iter_frames", "remove_temp", "os_remove"}

Finished(j) == pc[j] \in {"done", "failed"}

\* The frames a job's source yields, each through process_frame.
ExpectedOutput(j) == EnhancedFrames[request[j].video_path][request[j].params]

InOrder == [i \in 1..NumFrames |-> i]

\* C1: once enhance_video has returned or raised, the temp audio file the
\* job acquired no longer exists, whatever the exit path.
C1_TempGoneOnEveryExit ==
    \A j \in Jobs :
        (Finished(j) /\ wroteTemp[j]) => ~fs[TempAudioFile(j)].exists

\* C2: jobs that hold a temp audio file at the same time hold differently
\* named files, and the file a job holds is the one it wrote: no other job
\* has overwritten or deleted it.
C2_TempExclusive ==
    /\ \A i, j \in Jobs :
          (i # j /\ HoldsTemp(i) /\ HoldsTemp(j)) => TempAudioFile(i) # TempAudioFile(j)
    /\ \A j \in Jobs :
          HoldsTemp(j) =>
              (fs[TempAudioFile(j)].exists /\ fs[TempAudioFile(j)].writer = j)

\* C3 (as stated): a successful job has handed the encoder exactly
\* transform(f_1), ..., transform(f_N) in order, and has called the transform
\* exactly once per source frame, in order.
C3_ExactlyOnceInOrder ==
    \A j \in Jobs :
        pc[j] = "done" =>
            (ingested[j] = ExpectedOutput(j) /\ transformed[j] = InOrder)

\* C3 (amended): a successful job has handed the encoder exactly
\* transform(f_1), ..., transform(f_N) in order; the transform ran once per
\* frame for the encoder, in order, after one extra call on the first frame
\* made by fl_image before the encoder was opened.
C3_EncoderGetsEveryFrameInOrder ==
    \A j \in Jobs :
        pc[j] = "done" =>
            (ingested[j] = ExpectedOutput(j) /\ transformed[j] = <<1>> \o InOrder)

C3_Witness ==
    \E j \in Jobs :
        /\ pc[j] = "done"
        /\ request[j].params # DefaultParams
        /\ Len(ingested[j]) = NumFrames
        /\ ingested[j] # SourceFrames(request[j].video_path)

C5_MissingSourceFailsAtOpen ==
    \A j \in Jobs :
        (pc[j] \notin {"idle", "open"} /\ ~SourceExists(request[j].video_path)) =>
            /\ pc[j] = "failed"
            /\ error[j].raised
            /\ error[j].stage = "open"
            /\ transformed[j] = <<>>
            /\ encoder[j] = "none"
            /\ ~wroteTemp[j]
            /\ ~fs[request[j].output_path].exists

C5_Witness ==
    \E j \in Jobs :
        /\ request[j].video_path = VideoMissing
        /\ pc[j] = "failed"
        /\ error[j].stage = "open"

\* C6: when the transform fails on frame k the job has failed at the
\* transform stage, no later frame was transformed, and the error the caller
\* receives carries k.
C6_ErrorCarriesFrameIndex ==
    \A j \in Jobs :
        failedFrame[j] # NoIndex =>
            /\ pc[j] = "failed"
            /\ error[j].raised
            /\ error[j].stage = "transform"
            /\ \A i \in 1..Len(transformed[j]) : transformed[j][i] <= failedFrame[j]
            /\ error[j].frame_index = failedFrame[j]

\* C7: a success response exists only for a job that ran to completion
\* (every frame ingested, the writer closed) and names the output path; a
\* job in which any stage raised has no response and its error is recorded.
C7_SuccessOnlyAfterCompletion ==
    \A j \in Jobs :
        /\ response[j].sent =>
              /\ pc[j] = "done"
              /\ Len(ingested[j]) = NumFrames
              /\ encoder[j] = "closed"
              /\ response[j].output_video_path = OutputPath(request[j].video_path)
              /\ ~error[j].raised
        /\ pc[j] = "failed" => (~response[j].sent /\ error[j].raised)
        /\ error[j].raised => pc[j] = "failed"

C7_Witness ==
    /\ \E j \in Jobs : response[j].sent /\ pc[j] = "done"
    /\ \E j \in Jobs : pc[j] = "failed" /\ error[j].stage = "encode" /\ ingested[j] # <<>>

C9Swapped(p) ==
    [p EXCEPT !.saturation = p.color_boost, !.color_boost = p.saturation]

OthersIdentity(p) == p.sharpness = 10 /\ p.contrast = 10 /\ p.brightness = 0

\* C8: the contrast/brightness step maps every sample x to
\* clamp(contrast * x + b, 0, 255), b being brightness truncated to an
\* integer (the product rounded to the nearest sample).
C8_ClampedAffine ==
    t_pc = "sharpen" =>
        \A x \in 1..Len(t_frame) : \A c \in 1..3 :
            t_frame[x][c] =
                SaturateUchar(RoundHalfEven(
                    t_bgr[x][c] * t_params.contrast + 10 * IntTrunc(t_params.brightness),
                    10))

\* C9 (as stated): with the other parameters at identity, exchanging
\* saturation and colorBoost leaves the output unchanged, for every frame
\* and all factors.
C9_FactorsCommute ==
    (t_pc = "done" /\ OthersIdentity(t_params)) =>
        t_frame = process_frame(t_in, C9Swapped(t_params))

\* C9 (amended): with the other parameters at identity and one of the two
\* factors equal to 1.0, exchanging saturation and colorBoost leaves the
\* output unchanged: both scale the same saturation channel before the one
\* clamp.
C9_UnitFactorCommutes ==
    (/\ t_pc = "done"
     /\ OthersIdentity(t_params)
     /\ (t_params.saturation = 10 \/ t_params.color_boost = 10)) =>
        t_frame = process_frame(t_in, C9Swapped(t_params))

C9_Witness ==
    /\ t_pc = "done"
    /\ OthersIdentity(t_params)
    /\ t_params.saturation = 20
    /\ t_params.color_boost = 10
    /\ t_frame # process_frame(t_in, DefaultParams)
    /\ t_frame = process_frame(t_in, C9Swapped(t_params))

\* C10: with the identity parameters the transform returns its input,
\* sample for sample.
C10_IdentityIsNoOp ==
    (t_pc = "done" /\ t_params = DefaultParams) => t_frame = t_in

====
